---- MODULE Spec2Model ----
(***************************************************************************)
(* State-machine model of UDPLogRelay (src/udp_log_relay.py): the tailing  *)
(* engine (open_log_file, check_file_rotation, handle_file_rotation,       *)
(* read_new_lines), the transport sink (send_udp_message) and the main     *)
(* loop of run(), together with the environment they run against: the     *)
(* file system at LOG_FILE_PATH (a writer that appends, a rotator that     *)
(* truncates, removes, recreates or replaces the file), read faults and    *)
(* the stop signal.                                                        *)
(*                                                                         *)
(* A file is a sequence of characters.  The line terminator is NL; every   *)
(* other character is the value of the clock at the time it was appended,  *)
(* so a character identifies the append that wrote it.                     *)
(*                                                                         *)
(* open_log_file takes two steps, os.stat and then open, and the           *)
(* environment may act between them when the loop is running.             *)
(***************************************************************************)
EXTENDS Integers, Sequences, FiniteSets, TLC

\* ------------------------------------------------------------- bounds
\* events of the environment in one run: the file that exists at the start,
\* then every append, truncation, removal, creation and read fault
MaxEvents == 5
\* number of rotation recoveries in one run
MaxRotations == 2
\* Config.MAX_LINE_LENGTH (8192 unless the environment sets it), scaled to
\* the lines a run of MaxEvents events can hold
MAX_LINE_LENGTH == 2

\* ---------------------------------------------------------- constants
\* Python's None, for the handle, the stored inode and the stored mtime
None == 0
\* the line terminator
NL == 0
\* Config.ROTATION_RETRY_ATTEMPTS
ROTATION_RETRY_ATTEMPTS == 5
\* the ceiling of the retry delay (5.0 s); delays are in half milliseconds,
\* the unit in which every product by 1.5 below the ceiling is whole
RETRY_DELAY_CEILING == 10000
\* "... [truncated]": fifteen characters, none of them a character of the
\* file (. . . space [ t r u n c a t e d ])
TRUNCATION_MARKER ==
    <<-1, -1, -1, -2, -3, -4, -5, -6, -7, -8, -9, -4, -10, -11, -12>>

VARIABLES
    \* ---- Config, read from the environment when the module is loaded
    UDP_PORT,
    UDP_BUFFER_SIZE,
    ROTATION_RETRY_DELAY,
    \* ---- the file system
    fs_path,        \* inode the watched path resolves to, None when missing
    fs_files,       \* inode -> [data, mtime]
    now,            \* file-system clock: one tick per change of the file system
    faults,         \* read faults injected so far
    \* ---- UDPLogRelay
    socket,         \* TRUE while self.socket is a socket
    log_file,       \* inode the open handle refers to, None when closed
    file_position,
    file_inode,
    file_mtime,
    running,
    stats,          \* lines_processed, lines_sent, lines_failed, rotation_count
    \* ---- run() and handle_file_rotation()
    pc,             \* "start", "startup_open", "top", "rotated", "retry",
                    \* "retry_open", "read", "send", "done"
    file_stats,     \* local of open_log_file: what stat() returned
    attempt,        \* loop variable of handle_file_rotation
    retry_delay,    \* local of handle_file_rotation
    new_lines,      \* lines of the current batch not yet handed to the sink
    batch,          \* the list read_new_lines returned, while the loop over it runs
    exit_status,    \* "none", "config_invalid", "startup_failed", "stopped",
                    \* "fault"
    \* ---- observations
    sent_log,       \* every message handed to send_udp_message, in order
    payload_log,    \* what each of those calls passed on to encode() and sendto()
    open_eof,       \* file_position recorded by the last successful open
    open_cause,     \* why that open happened: "start" or the rotation's reason
    cleanup_log,    \* the statistics cleanup() logged, one entry per call
    stale,          \* the offset the open file was truncated below, None once
                    \* a recovery has reset the offset
    rot_reason      \* what check_file_rotation found, until the recovery ends

vars == <<UDP_PORT, UDP_BUFFER_SIZE, ROTATION_RETRY_DELAY, fs_path, fs_files,
          now, faults, socket, log_file,
          file_position, file_inode, file_mtime, running, stats, pc, attempt,
          file_stats, retry_delay, new_lines, batch, exit_status, sent_log,
          payload_log, open_eof, open_cause, cleanup_log, stale, rot_reason>>

cfgVars == <<UDP_PORT, UDP_BUFFER_SIZE, ROTATION_RETRY_DELAY>>
fsVars == <<fs_path, fs_files, now>>
tailVars == <<log_file, file_position, file_inode, file_mtime>>
obsVars == <<sent_log, payload_log, open_eof, open_cause, rot_reason>>

\* ------------------------------------------------------------ helpers
Min(a, b) == IF a < b THEN a ELSE b

PathExists == fs_path # None

\* os.stat of the watched path
PathSize == Len(fs_files[fs_path].data)
PathMtime == fs_files[fs_path].mtime

\* the file system frees an unlinked file once no handle refers to it
NoFile == [data |-> <<>>, mtime |-> 0]
Reap(files, path, handle) ==
    [i \in DOMAIN files |-> IF i \in {path, handle} THEN files[i] ELSE NoFile]

\* index of the first NL of s, Len(s) when there is none: where readline() stops
RECURSIVE LineEnd(_, _)
LineEnd(s, i) ==
    IF i >= Len(s) THEN Len(s)
    ELSE IF s[i] = NL THEN i
    ELSE LineEnd(s, i + 1)

\* what successive readline() calls return until the empty string
RECURSIVE RawLines(_)
RawLines(s) ==
    IF s = <<>> THEN <<>>
    ELSE LET e == LineEnd(s, 1)
         IN  <<SubSeq(s, 1, e)>> \o RawLines(SubSeq(s, e + 1, Len(s)))

\* line.rstrip('\n\r')
RECURSIVE Rstrip(_)
Rstrip(l) ==
    IF l # <<>> /\ l[Len(l)] = NL THEN Rstrip(SubSeq(l, 1, Len(l) - 1)) ELSE l

\* the stripped lines among the first k raw lines, the empty ones too
RECURSIVE Kept_BlankKept(_, _)
Kept_BlankKept(raw, k) ==
    IF k = 0 THEN <<>>
    ELSE Append(Kept_BlankKept(raw, k - 1), Rstrip(raw[k]))

\* the stripped, non-empty lines among the first k raw lines
RECURSIVE Kept(_, _)
Kept(raw, k) ==
    IF k = 0 THEN <<>>
    ELSE LET l == Rstrip(raw[k])
         IN  IF l # <<>> THEN Append(Kept(raw, k - 1), l) ELSE Kept(raw, k - 1)

\* characters of the first k raw lines
RECURSIVE Consumed(_, _)
Consumed(raw, k) == IF k = 0 THEN 0 ELSE Len(raw[k]) + Consumed(raw, k - 1)

\* ------------------------------------------------------ open_log_file
\* open_log_file() runs in two steps, between which the writer and the
\* rotator may act: exists() and stat() of the path, then open() of the path
\* with seek(0, 2) and tell().

\* file_stats outside the call
NoStats == [st_ino |-> None, st_mtime |-> None]

\* file_stats = self.log_file_path.stat(): the inode and the modification
\* time of the file at the path
Stat == [st_ino |-> fs_path, st_mtime |-> PathMtime]

\* result of the second step: ok (open() found the path), and the four
\* fields assigned: the handle and the position from the file open() found,
\* the inode and the modification time from file_stats
open_log_file ==
    IF ~PathExists
    THEN [ok |-> FALSE, log_file |-> log_file, file_position |-> file_position,
          file_inode |-> file_inode, file_mtime |-> file_mtime]
    ELSE [ok |-> TRUE, log_file |-> fs_path, file_position |-> PathSize,
          file_inode |-> file_stats.st_ino,
          file_mtime |-> file_stats.st_mtime]

\* ------------------------------------------------ check_file_rotation
\* check_file_rotation() without its comparison of inodes
check_file_rotation_NoInode ==
    IF ~PathExists THEN "missing"
    ELSE IF PathSize < file_position THEN "size"
    ELSE IF file_mtime # None /\ PathMtime < file_mtime THEN "mtime"
    ELSE "none"

\* check_file_rotation() taking an unchanged modification time for an older
\* one
check_file_rotation_MtimeNotStrict ==
    IF ~PathExists THEN "missing"
    ELSE IF file_inode # None /\ fs_path # file_inode THEN "inode"
    ELSE IF PathSize < file_position THEN "size"
    ELSE IF file_mtime # None /\ PathMtime <= file_mtime THEN "mtime"
    ELSE "none"

\* self.log_file.seek(self.file_position); self.log_file.read(1): the number
\* of characters the probe of method 4 reads from the open handle
ProbeRead ==
    IF file_position < Len(fs_files[log_file].data) THEN 1 ELSE 0

\* the reason check_file_rotation() logs; "none" when it returns False
check_file_rotation ==
    IF ~PathExists THEN "missing"
    ELSE IF file_inode # None /\ fs_path # file_inode THEN "inode"
    ELSE IF PathSize < file_position THEN "size"
    ELSE IF file_mtime # None /\ PathMtime < file_mtime THEN "mtime"
    ELSE IF /\ log_file # None /\ file_position > 0
            /\ PathSize < file_position
            /\ ProbeRead = 0
         THEN "probe"
    ELSE "none"

\* ----------------------------------------------------- read_new_lines
\* The scan of read_new_lines() from file_position on the open handle.
\* fault "none": every readline() succeeds.  fault "io": the readline()
\* after k raw lines raises OSError (inner handler, loop left, position from
\* tell()).  fault "other": it raises another exception, or tell() raises
\* (outer handler, position reset to 0).
ScanData ==
    LET d == fs_files[log_file].data
    IN  IF file_position >= Len(d) THEN <<>>
        ELSE SubSeq(d, file_position + 1, Len(d))

read_new_lines(fault, k) ==
    LET raw == RawLines(ScanData)
        n   == IF fault = "none" THEN Len(raw) ELSE k
    IN  [lines |-> Kept(raw, n),
         file_position |-> IF fault = "other" THEN 0
                           ELSE file_position + Consumed(raw, n)]

\* ------------------------------------------------------------ actions
\* the service as __init__ leaves it, under a configuration
Start(port, buffer_size, initial_delay) ==
    /\ UDP_PORT = port
    /\ UDP_BUFFER_SIZE = buffer_size
    /\ ROTATION_RETRY_DELAY = initial_delay
    /\ fs_path \in {None, 1}
    /\ fs_files = [i \in 1..MaxEvents |->
                     IF i = 1 /\ fs_path = 1
                     THEN [data |-> <<1, NL>>, mtime |-> 1]
                     ELSE NoFile]
    /\ now = 1
    /\ faults = 0
    /\ socket = FALSE
    /\ log_file = None
    /\ file_position = 0
    /\ file_inode = None
    /\ file_mtime = None
    /\ running = FALSE
    /\ stats = [lines_processed |-> 0, lines_sent |-> 0, lines_failed |-> 0,
                rotation_count |-> 0]
    /\ pc = "start"
    /\ file_stats = NoStats
    /\ attempt = 0
    /\ retry_delay = 0
    /\ new_lines = <<>>
    /\ batch = <<>>
    /\ exit_status = "none"
    /\ sent_log = <<>>
    /\ payload_log = <<>>
    /\ open_eof = 0
    /\ open_cause = "none"
    /\ cleanup_log = <<>>
    /\ stale = None
    /\ rot_reason = "none"

\* the defaults of Config: port 514, buffer of 1024 bytes, delay of 1.0 s
Init == Start(514, 1024, 2000)

\* values the environment may give UDP_PORT, UDP_BUFFER_SIZE and
\* ROTATION_RETRY_DELAY (1.0 s and 6.0 s)
Ports == {0, 514, 65536}
BufferSizes == {0, 1024}
RetryDelays == {2000, 12000}

\* the service under any of those configurations
InitConfig == \E port \in Ports : \E buffer_size \in BufferSizes :
                 \E initial_delay \in RetryDelays :
                    Start(port, buffer_size, initial_delay)

\* Config.validate(): a missing directory is a warning, a port outside
\* 1..65535 raises ValueError and gives False; nothing else is looked at
validate == 1 <= UDP_PORT /\ UDP_PORT <= 65535

\* run() entering the loop although open_log_file() failed at startup
StartupOpenFailed_EnterLoop ==
    /\ socket' = TRUE
    /\ running' = TRUE
    /\ pc' = "top"
    /\ exit_status' = exit_status

\* run() when open_log_file() fails at startup: close_udp_socket() and
\* return False, before self.running is set
StartupOpenFailed ==
    /\ socket' = FALSE
    /\ running' = running
    /\ pc' = "done"
    /\ exit_status' = "startup_failed"

\* run(), up to the open() of the file: the configuration is validated, the
\* socket is created, then open_log_file() looks for the path and stats it
RunStart ==
    /\ pc = "start"
    /\ IF ~validate
       THEN /\ pc' = "done"
            /\ exit_status' = "config_invalid"
            /\ UNCHANGED <<socket, running, file_stats>>
       ELSE IF PathExists
       THEN /\ socket' = TRUE
            /\ file_stats' = Stat
            /\ pc' = "startup_open"
            /\ UNCHANGED <<running, exit_status>>
       ELSE /\ StartupOpenFailed
            /\ UNCHANGED file_stats
    /\ UNCHANGED <<cfgVars, stale, fsVars, faults, tailVars, stats, attempt,
                   retry_delay, new_lines, batch, sent_log, payload_log,
                   open_eof, open_cause, cleanup_log, rot_reason>>

\* run(), from the open() of the file to the loop: self.running = True when
\* open_log_file() returns True
StartupOpen ==
    /\ pc = "startup_open"
    /\ LET o == open_log_file
       IN  IF o.ok
           THEN /\ log_file' = o.log_file
                /\ file_position' = o.file_position
                /\ file_inode' = o.file_inode
                /\ file_mtime' = o.file_mtime
                /\ open_eof' = o.file_position
                /\ open_cause' = "start"
                /\ running' = TRUE
                /\ pc' = "top"
                /\ UNCHANGED <<socket, exit_status>>
           ELSE /\ StartupOpenFailed
                /\ UNCHANGED <<tailVars, open_eof, open_cause>>
    /\ file_stats' = NoStats
    /\ UNCHANGED <<cfgVars, stale, fsVars, faults, stats, attempt,
                   retry_delay, new_lines, batch, sent_log, payload_log,
                   cleanup_log, rot_reason>>

\* cleanup() leaving the socket open
Cleanup_SocketLeft(status) ==
    /\ cleanup_log' = Append(cleanup_log, stats)
    /\ log_file' = None
    /\ fs_files' = Reap(fs_files, fs_path, None)
    /\ socket' = socket
    /\ pc' = "done"
    /\ exit_status' = status

\* cleanup(): log_statistics (start_time is set by run()), close_log_file
\* and close_udp_socket
Cleanup(status) ==
    /\ cleanup_log' = Append(cleanup_log, stats)
    /\ log_file' = None
    /\ fs_files' = Reap(fs_files, fs_path, None)
    /\ socket' = FALSE
    /\ pc' = "done"
    /\ exit_status' = status

\* a loop whose test never fails
LoopCondition_Always == TRUE

\* while self.running: the test at the top of each cycle
LoopCondition == running

\* the loop is left when the test fails
LoopExit ==
    /\ pc = "top"
    /\ ~LoopCondition
    /\ Cleanup("stopped")
    /\ UNCHANGED <<cfgVars, file_stats, stale, fs_path, now, faults,
                   file_position, file_inode, file_mtime, running, stats,
                   attempt, retry_delay, new_lines, batch, obsVars>>

\* a cycle in which the rotation check is due
CheckRotation ==
    /\ pc = "top"
    /\ LoopCondition
    /\ stats.rotation_count < MaxRotations
    /\ rot_reason' = check_file_rotation
    /\ pc' = IF check_file_rotation # "none" THEN "rotated" ELSE "read"
    /\ UNCHANGED <<cfgVars, file_stats, stale, fsVars, faults, socket,
                   tailVars, running, stats, attempt, retry_delay, new_lines,
                   batch, exit_status, sent_log, payload_log, open_eof,
                   open_cause, cleanup_log>>

\* handle_file_rotation() leaving the stored inode in place
HandleFileRotation_InodeKept ==
    /\ pc = "rotated"
    /\ stats' = [stats EXCEPT !.rotation_count = @ + 1]
    /\ log_file' = None
    /\ fs_files' = Reap(fs_files, fs_path, None)
    /\ file_position' = 0
    /\ stale' = None
    /\ file_inode' = file_inode
    /\ file_mtime' = None
    /\ attempt' = 0
    /\ retry_delay' = ROTATION_RETRY_DELAY
    /\ rot_reason' = IF ROTATION_RETRY_ATTEMPTS > 0 THEN rot_reason ELSE "none"
    /\ pc' = IF ROTATION_RETRY_ATTEMPTS > 0 THEN "retry" ELSE "read"
    /\ UNCHANGED <<cfgVars, file_stats, fs_path, now, faults, socket, running,
                   new_lines, batch, exit_status, sent_log, payload_log,
                   open_eof, open_cause, cleanup_log>>

\* handle_file_rotation(), up to the retry loop
HandleFileRotation ==
    /\ pc = "rotated"
    /\ stats' = [stats EXCEPT !.rotation_count = @ + 1]
    /\ log_file' = None
    /\ fs_files' = Reap(fs_files, fs_path, None)
    /\ file_position' = 0
    /\ stale' = None
    /\ file_inode' = None
    /\ file_mtime' = None
    /\ attempt' = 0
    /\ retry_delay' = ROTATION_RETRY_DELAY
    /\ rot_reason' = IF ROTATION_RETRY_ATTEMPTS > 0 THEN rot_reason ELSE "none"
    /\ pc' = IF ROTATION_RETRY_ATTEMPTS > 0 THEN "retry" ELSE "read"
    /\ UNCHANGED <<cfgVars, file_stats, fs_path, now, faults, socket, running,
                   new_lines, batch, exit_status, sent_log, payload_log,
                   open_eof, open_cause, cleanup_log>>

\* the retry loop making one pass too many
MoreAttempts_OneMore == attempt + 1 <= ROTATION_RETRY_ATTEMPTS

\* for attempt in range(max_retries): whether another pass follows this one
MoreAttempts == attempt + 1 < ROTATION_RETRY_ATTEMPTS

\* retry_delay = min(retry_delay * 1.5, 5.0)
NextDelay(d) == Min((d * 3) \div 2, RETRY_DELAY_CEILING)

\* the end of a pass in which open_log_file() returned False: the longer
\* delay and the next pass, or the return after the last pass; the locals
\* are dropped on return
AttemptFailed ==
    IF MoreAttempts
    THEN /\ attempt' = attempt + 1
         /\ retry_delay' = NextDelay(retry_delay)
         /\ rot_reason' = rot_reason
         /\ pc' = "retry"
    ELSE /\ attempt' = 0
         /\ retry_delay' = 0
         /\ rot_reason' = "none"
         /\ pc' = "read"

\* one pass of the retry loop, up to the open() of the file:
\* sleep(retry_delay), then open_log_file() looks for the path and stats it
RetryAttempt ==
    /\ pc = "retry"
    /\ IF PathExists
       THEN /\ file_stats' = Stat
            /\ pc' = "retry_open"
            /\ UNCHANGED <<attempt, retry_delay, rot_reason>>
       ELSE /\ AttemptFailed
            /\ UNCHANGED file_stats
    /\ UNCHANGED <<cfgVars, stale, fsVars, faults, socket, tailVars, running,
                   stats, new_lines, batch, exit_status, sent_log,
                   payload_log, open_eof, open_cause, cleanup_log>>

\* the rest of the pass: open() of the file, and the return from the
\* recovery when it succeeds
RetryOpen ==
    /\ pc = "retry_open"
    /\ LET o == open_log_file
       IN  IF o.ok
           THEN /\ log_file' = o.log_file
                /\ file_position' = o.file_position
                /\ file_inode' = o.file_inode
                /\ file_mtime' = o.file_mtime
                /\ open_eof' = o.file_position
                /\ open_cause' = rot_reason
                /\ attempt' = 0
                /\ retry_delay' = 0
                /\ rot_reason' = "none"
                /\ pc' = "read"
           ELSE /\ AttemptFailed
                /\ UNCHANGED <<tailVars, open_eof, open_cause>>
    /\ file_stats' = NoStats
    /\ UNCHANGED <<cfgVars, stale, fsVars, faults, socket, running, stats,
                   new_lines, batch, exit_status, sent_log, payload_log,
                   cleanup_log>>

\* the fast path taken only when the file is shorter than the offset
NoNewContent_Strict == PathSize < file_position

\* if file_size <= self.file_position: return []
NoNewContent == PathSize <= file_position

\* new_lines = self.read_new_lines(); lines_processed += len(new_lines)
ReadNewLines ==
    /\ \/ pc = "read"
       \/ pc = "top" /\ LoopCondition
    /\ IF log_file = None
       THEN \* no handle: []
            /\ new_lines' = <<>>
            /\ batch' = batch
            /\ pc' = "top"
            /\ UNCHANGED <<fs_files, faults, socket, tailVars, stats,
                           exit_status, cleanup_log>>
       ELSE IF ~PathExists
       THEN \* stat() raises before new_lines is bound: the handler resets the
            \* position, the return raises UnboundLocalError, run() logs it
            \* and goes to cleanup()
            /\ file_position' = 0
            /\ Cleanup("fault")
            /\ UNCHANGED <<faults, file_inode, file_mtime, stats, new_lines,
                           batch>>
       ELSE IF NoNewContent
       THEN /\ new_lines' = <<>>
            /\ batch' = batch
            /\ pc' = "top"
            /\ UNCHANGED <<fs_files, faults, socket, tailVars, stats,
                           exit_status, cleanup_log>>
       ELSE \E fault \in {"none", "io", "other"} :
            \E k \in 0..Len(RawLines(ScanData)) :
              /\ fault = "none" => k = 0
              /\ fault # "none" => now + faults < MaxEvents
              /\ LET r == read_new_lines(fault, k)
                 IN  /\ new_lines' = r.lines
                     /\ batch' = r.lines
                     /\ file_position' = r.file_position
                     /\ stats' = [stats EXCEPT
                                    !.lines_processed = @ + Len(r.lines)]
                     /\ pc' = IF r.lines = <<>> THEN "top" ELSE "send"
              /\ faults' = IF fault = "none" THEN faults ELSE faults + 1
              /\ UNCHANGED <<fs_files, socket, log_file, file_inode,
                             file_mtime, exit_status, cleanup_log>>
    /\ UNCHANGED <<cfgVars, file_stats, stale, fs_path, now, running, attempt,
                   retry_delay, obsVars>>

\* send_udp_message() with a timeout handler that counts nothing
send_udp_message_TimeoutUncounted(outcome) ==
    IF ~socket THEN stats
    ELSE IF outcome = "sent" THEN [stats EXCEPT !.lines_sent = @ + 1]
    ELSE IF outcome = "timeout" THEN stats
    ELSE [stats EXCEPT !.lines_failed = @ + 1]

\* the statistics after send_udp_message(): no socket, sendto() returned,
\* socket.timeout, or another exception
send_udp_message(outcome) ==
    IF ~socket THEN stats
    ELSE IF outcome = "sent" THEN [stats EXCEPT !.lines_sent = @ + 1]
    ELSE [stats EXCEPT !.lines_failed = @ + 1]

\* the truncation cutting a message of exactly MAX_LINE_LENGTH characters too
Payload_CutAtEqual(message) ==
    IF Len(message) >= MAX_LINE_LENGTH
    THEN SubSeq(message, 1, MAX_LINE_LENGTH) \o TRUNCATION_MARKER
    ELSE message

\* the message send_udp_message() encodes and passes to sendto():
\* message[:MAX_LINE_LENGTH] + "... [truncated]" when it is too long
Payload(message) ==
    IF Len(message) > MAX_LINE_LENGTH
    THEN SubSeq(message, 1, MAX_LINE_LENGTH) \o TRUNCATION_MARKER
    ELSE message

\* the loop over the batch offering a line again after a failed send
SendUdpMessage_RetryFailed ==
    /\ pc = "send"
    /\ new_lines # <<>>
    /\ sent_log' = Append(sent_log, Head(new_lines))
    /\ payload_log' = IF socket
                      THEN Append(payload_log, Payload(Head(new_lines)))
                      ELSE payload_log
    /\ \E outcome \in {"sent", "timeout", "error"} :
         /\ stats' = send_udp_message(outcome)
         /\ new_lines' = IF outcome = "sent" THEN Tail(new_lines) ELSE new_lines
         /\ pc' = IF outcome = "sent" /\ Tail(new_lines) = <<>>
                  THEN "top" ELSE "send"
    /\ UNCHANGED <<cfgVars, file_stats, stale, fsVars, faults, socket,
                   tailVars, running, attempt, retry_delay, batch,
                   exit_status, open_eof, open_cause, cleanup_log,
                   rot_reason>>

\* for line in new_lines: send_udp_message(line), for the next line of the
\* batch
SendUdpMessage ==
    /\ pc = "send"
    /\ new_lines # <<>>
    /\ sent_log' = Append(sent_log, Head(new_lines))
    /\ payload_log' = IF socket
                      THEN Append(payload_log, Payload(Head(new_lines)))
                      ELSE payload_log
    /\ \E outcome \in {"sent", "timeout", "error"} :
         stats' = send_udp_message(outcome)
    /\ new_lines' = Tail(new_lines)
    /\ batch' = IF Tail(new_lines) = <<>> THEN <<>> ELSE batch
    /\ pc' = IF Tail(new_lines) = <<>> THEN "top" ELSE "send"
    /\ UNCHANGED <<cfgVars, file_stats, stale, fsVars, faults, socket,
                   tailVars, running, attempt, retry_delay, exit_status,
                   open_eof, open_cause, cleanup_log, rot_reason>>

\* signal_handler(): SIGTERM or SIGINT while the loop runs
SignalHandler ==
    /\ pc \notin {"start", "done"}
    /\ running
    /\ running' = FALSE
    /\ UNCHANGED <<cfgVars, file_stats, stale, fsVars, faults, socket,
                   tailVars, stats, pc, attempt, retry_delay, new_lines,
                   batch, exit_status, cleanup_log, obsVars>>

\* ---------------------------------------------------- the environment
\* the writer and the rotator act while the loop runs; the file system the
\* service starts on is the one of Init
EnvLive ==
    /\ pc \notin {"start", "startup_open", "done"}
    /\ now + faults < MaxEvents

progUnchanged ==
    UNCHANGED <<cfgVars, file_stats, faults, socket, tailVars, running, stats,
                pc, attempt, retry_delay, new_lines, batch, exit_status,
                cleanup_log, obsVars>>

\* the writer appends a fragment, a whole line or a bare terminator
Append_(chunk) ==
    /\ EnvLive
    /\ PathExists
    /\ now' = now + 1
    /\ fs_files' = [fs_files EXCEPT ![fs_path] =
                      [data |-> @.data \o chunk, mtime |-> now + 1]]
    /\ UNCHANGED fs_path
    /\ UNCHANGED stale
    /\ progUnchanged

AppendToFile ==
    \E shape \in {"fragment", "line", "terminator"} :
       Append_(IF shape = "fragment" THEN <<now + 1>>
               ELSE IF shape = "line" THEN <<now + 1, NL>>
               ELSE <<NL>>)

\* the rotator truncates the file in place (copytruncate)
TruncateFile ==
    /\ EnvLive
    /\ PathExists
    /\ PathSize > 0
    /\ now' = now + 1
    /\ fs_files' = [fs_files EXCEPT ![fs_path] =
                      [data |-> <<>>, mtime |-> now + 1]]
    /\ UNCHANGED fs_path
    /\ stale' = IF log_file = fs_path /\ file_position > 0
                THEN file_position ELSE stale
    /\ progUnchanged

\* the file's modification time is set back (utime(), or a write after the
\* system clock was stepped back); the size and the inode stay
TouchFile ==
    /\ EnvLive
    /\ PathExists
    /\ PathMtime > 1
    /\ now' = now + 1
    /\ fs_files' = [fs_files EXCEPT ![fs_path].mtime = 1]
    /\ UNCHANGED fs_path
    /\ UNCHANGED stale
    /\ progUnchanged

\* the rotator renames the file away or unlinks it
RemoveFile ==
    /\ EnvLive
    /\ PathExists
    /\ fs_path' = None
    /\ fs_files' = Reap(fs_files, None, log_file)
    /\ now' = now + 1
    /\ UNCHANGED stale
    /\ progUnchanged

\* a new, empty file appears at the path: after a removal, or renamed over
\* the old one; its inode is one no file has had
CreateFile ==
    /\ EnvLive
    /\ now' = now + 1
    /\ fs_path' = now + 1
    /\ fs_files' = Reap([fs_files EXCEPT ![now + 1] =
                             [data |-> <<>>, mtime |-> now + 1]],
                          now + 1, log_file)
    /\ UNCHANGED stale
    /\ progUnchanged

Next ==
    \/ RunStart
    \/ StartupOpen
    \/ LoopExit
    \/ CheckRotation
    \/ HandleFileRotation
    \/ RetryAttempt
    \/ RetryOpen
    \/ ReadNewLines
    \/ SendUdpMessage
    \/ SignalHandler
    \/ AppendToFile
    \/ TruncateFile
    \/ TouchFile
    \/ RemoveFile
    \/ CreateFile

Spec == Init /\ [][Next]_vars

\* the service started under any configuration
ConfigSpec == InitConfig /\ [][Next]_vars

\* the call of read_new_lines() made by the cycle in progress returns, or
\* raises: control leaves line 386
ReadReturns ==
    /\ pc = "read"
    /\ pc' \in {"top", "send", "done"}

\* the step run() is at, outside read_new_lines(): the while test failing,
\* one step of the recovery, one send
LoopStep ==
    \/ StartupOpen
    \/ LoopExit
    \/ HandleFileRotation
    \/ RetryAttempt
    \/ RetryOpen
    \/ SendUdpMessage

\* run() is one thread that is never suspended for ever: the while test is
\* evaluated, every time.sleep() of the recovery ends, every open() returns,
\* read_new_lines() returns and sendto() returns or times out (the socket's
\* timeout is 1.0 s)
FairSpec ==
    /\ Spec
    /\ WF_vars(LoopStep)
    /\ WF_pc(ReadReturns)

\* ============================================================== claims
RECURSIVE Flatten(_)
Flatten(ss) == IF ss = <<>> THEN <<>> ELSE Head(ss) \o Flatten(Tail(ss))

Increasing(s) == \A i, j \in 1..Len(s) : i < j => s[i] < s[j]

\* C1 (as claimed): the lines handed to send_udp_message appear in the order
\* they were appended to the file: the characters forwarded, taken in the order
\* of forwarding, are in the order of their appends.
C1_Ordering == Increasing(Flatten(sent_log))

\* C2 (as claimed): every byte read_new_lines returns lies at or beyond the
\* end-of-file position recorded by the most recent successful open: a scan
\* that returns lines starts at an offset that is not below that position.
C2_NoHistoricalReplay ==
    [][(ReadNewLines /\ new_lines' # <<>>) => file_position >= open_eof]_vars

\* a scan is about to read data whose last line has no terminator yet
Unterminated(s) == s # <<>> /\ s[Len(s)] # NL
LastRaw(s) == RawLines(s)[Len(RawLines(s))]
ScansFragment ==
    /\ log_file # None
    /\ PathExists
    /\ PathSize > file_position
    /\ Unterminated(ScanData)

\* C3 (as claimed): an append that does not end with a line terminator yields
\* no forwarded line: read_new_lines neither returns the unterminated fragment
\* nor advances the offset past the start of it.
C3_PartialLineHoldback ==
    [][(ReadNewLines /\ ScansFragment) =>
         /\ file_position' <=
               file_position + Len(ScanData) - Len(LastRaw(ScanData))
         /\ \A i \in 1..Len(new_lines') : new_lines'[i] # LastRaw(ScanData)]_vars

\* C4 (as claimed): when the watched path has disappeared while the handle is
\* open, a poll cycle's read_new_lines completes without an exception reaching
\* the main loop: the loop is not left and the service does not stop.
C4_DisappearanceNotFatal ==
    [][(ReadNewLines /\ log_file # None /\ ~PathExists) =>
         (pc' # "done" /\ exit_status' = "none")]_vars

\* C5 (as claimed): with the engine Closed after an exhausted recovery and the
\* file back at the watched path, a periodic rotation check starts the open
\* sequence again (it reports Rotated, so that recovery re-opens the file).
C5_ReopenAfterExhaustion ==
    [][(CheckRotation /\ log_file = None /\ PathExists) => pc' = "rotated"]_vars

\* C6: a recovery during which the path is absent makes at most
\* ROTATION_RETRY_ATTEMPTS open attempts; each failed attempt leaves the engine
\* Closed, the running flag and the exit status as they were, and the last one
\* returns to the main loop, whose read_new_lines then returns [] and whose
\* cycle ends normally.
C6_RecoveryExhaustion ==
    /\ [](pc \in {"retry", "retry_open"} =>
            (attempt < ROTATION_RETRY_ATTEMPTS /\ log_file = None))
    /\ [][((RetryAttempt \/ RetryOpen) /\ ~PathExists) =>
            /\ log_file' = None
            /\ running' = running
            /\ exit_status' = exit_status
            /\ pc' = IF attempt + 1 = ROTATION_RETRY_ATTEMPTS
                     THEN "read" ELSE "retry"]_vars
    /\ [][(ReadNewLines /\ log_file = None) =>
            (pc' = "top" /\ new_lines' = <<>> /\ exit_status' = exit_status)]_vars

\* the recovery gave up with the path still absent and the loop went on to
\* the end of its cycle
C6_Witness ==
    /\ pc = "top"
    /\ log_file = None
    /\ ~PathExists
    /\ stats.rotation_count > 0
    /\ exit_status = "none"

\* C7 (as claimed): a file truncated below the stored offset is reported
\* Rotated by the next check; the recovery reopens with the offset at the
\* file's size at that time; and after that reopen only content appended after
\* it is forwarded (every scan that returns lines starts at or beyond the
\* offset of the reopen).
C7_TruncateRotation ==
    [][/\ (CheckRotation /\ PathExists /\ PathSize < file_position)
            => pc' = "rotated"
       /\ (RetryOpen /\ rot_reason = "size" /\ PathExists)
            => (log_file' = fs_path /\ file_position' = PathSize)
       /\ (ReadNewLines /\ open_cause = "size" /\ new_lines' # <<>>)
            => file_position >= open_eof]_vars

\* C8: when the path resolves to a file whose inode differs from the stored
\* one, check_file_rotation reports Rotated, whatever the new file's size and
\* modification time.
C8_InodeChangeDetected ==
    [][(CheckRotation /\ PathExists /\ file_inode # None
          /\ fs_path # file_inode) => pc' = "rotated"]_vars

\* a rotation reported for the inode alone: the new file is not shorter than
\* the stored offset and not older than the stored modification time
C8_Witness ==
    /\ pc = "rotated"
    /\ rot_reason = "inode"
    /\ PathExists
    /\ fs_path # file_inode
    /\ PathSize >= file_position
    /\ file_position > 0
    /\ PathMtime >= file_mtime

\* C9: whenever no batch is in flight (the end of a cycle, cleanup),
\* lines_sent + lines_failed = lines_processed; while a batch is being sent
\* the difference is the number of its lines not yet attempted.
C9_StatsBalance ==
    /\ pc # "send" =>
          stats.lines_sent + stats.lines_failed = stats.lines_processed
    /\ stats.lines_sent + stats.lines_failed + Len(new_lines)
          = stats.lines_processed

\* the service has stopped after sends that succeeded and sends that failed
C9_Witness ==
    /\ pc = "done"
    /\ stats.lines_sent > 0
    /\ stats.lines_failed > 0

\* C10 (as claimed): with the file missing at startup the main loop is
\* entered with the engine Closed and the service keeps running.
C10_MissingAtStartKeepsPolling ==
    [][(RunStart /\ ~PathExists) =>
         (pc' = "top" /\ running' /\ log_file' = None
            /\ exit_status' = "none")]_vars

\* C10 (amended): with the file missing at startup run() closes the socket
\* and returns failure: the main loop is never entered, the engine stays
\* Closed and no open is retried.
C10_MissingAtStartRefuses ==
    /\ [][(RunStart /\ ~PathExists) =>
            (pc' = "done" /\ exit_status' = "startup_failed")]_vars
    /\ [](exit_status = "startup_failed" =>
            /\ pc = "done"
            /\ ~running
            /\ ~socket
            /\ log_file = None
            /\ stats.rotation_count = 0)

\* the service was started with the file missing and has returned
C10_Witness == exit_status = "startup_failed" /\ ~PathExists

\* C11 (as claimed): the recovery observes the stop flag between retry
\* attempts: once running is False, no further pass of the retry loop (its
\* backoff sleep and its open attempt) is started after a failed one.
C11_RecoveryObservesStop ==
    [][(RetryAttempt /\ attempt > 0) => running]_vars

\* C12: whenever the main loop has been left, by the stop signal or by a
\* fault inside a cycle, cleanup() has run exactly once: it logged the final
\* statistics, and the file handle and the socket are None; cleanup() runs on
\* no other occasion, and every step that leaves the loop runs it.
C12_CleanupOnce ==
    /\ [](/\ Len(cleanup_log) <= 1
          /\ (exit_status \in {"stopped", "fault"}) <=> (Len(cleanup_log) = 1)
          /\ Len(cleanup_log) = 1 =>
               /\ pc = "done"
               /\ cleanup_log[1] = stats
               /\ log_file = None
               /\ ~socket)
    /\ [][(pc \notin {"start", "startup_open", "done"} /\ pc' = "done") =>
             Len(cleanup_log') = Len(cleanup_log) + 1]_vars

\* the loop was left by a fault in a cycle that followed sends, and cleanup()
\* has run
C12_Witness ==
    /\ exit_status = "fault"
    /\ stats.lines_sent > 0
    /\ Len(cleanup_log) = 1

\* C13: once the stop signal has set running to False the flag stays down,
\* no new poll cycle begins (neither a rotation check nor a read is started
\* from the top of the loop), and under fair scheduling of the loop the loop
\* is eventually left, in whatever phase the signal arrived: between cycles,
\* during the rotation recovery, before the read or during the sends.  The
\* flag staying down and the exit being final, "eventually left" is: the
\* service is not for ever in its loop with the flag down.
C13_StopEndsLoop ==
    /\ [][(pc \notin {"start", "startup_open"} /\ ~running) =>
            ~running']_vars
    /\ [][(pc = "done") => (pc' = "done")]_vars
    /\ [][(pc = "top" /\ ~running) => ~(CheckRotation \/ ReadNewLines)]_vars
    /\ []<>(pc \in {"start", "startup_open", "done"} \/ running)

\* the flag is down in the middle of a rotation recovery
C13_Witness ==
    /\ pc = "retry"
    /\ attempt > 0
    /\ ~running

\* the lines of the current batch already handed to send_udp_message
Attempted == Len(batch) - Len(new_lines)

\* C14: the lines of a batch are handed to send_udp_message once each, in
\* the order of the batch: what is left to send is the rest of the batch, what
\* was handed over last is its beginning, and nothing is left when the cycle
\* ends; every call is counted once, as sent or as failed.  A failed or
\* timed-out send adds one to lines_failed and nothing to lines_sent, the line
\* is not offered again, and the loop goes on with the next line or the next
\* cycle.
C14_OneSendPerLine ==
    /\ [](/\ Attempted >= 0
          /\ Attempted <= Len(sent_log)
          /\ new_lines = SubSeq(batch, Attempted + 1, Len(batch))
          /\ SubSeq(sent_log, Len(sent_log) - Attempted + 1, Len(sent_log))
                = SubSeq(batch, 1, Attempted)
          /\ pc # "send" => new_lines = <<>>
          /\ Len(sent_log) = stats.lines_sent + stats.lines_failed)
    /\ [][SendUdpMessage =>
            /\ sent_log' = Append(sent_log, Head(new_lines))
            /\ new_lines' = Tail(new_lines)]_vars
    /\ [][(sent_log' # sent_log) => SendUdpMessage]_vars
    /\ [][(SendUdpMessage /\ stats'.lines_sent = stats.lines_sent) =>
            /\ stats'.lines_failed = stats.lines_failed + 1
            /\ new_lines' = Tail(new_lines)
            /\ pc' = IF new_lines' = <<>> THEN "top" ELSE "send"
            /\ running' = running
            /\ exit_status' = "none"]_vars

\* the first line of a batch of two has failed and the second is about to be
\* handed over
C14_Witness ==
    /\ pc = "send"
    /\ Len(batch) = 2
    /\ Attempted = 1
    /\ stats.lines_sent = 0
    /\ stats.lines_failed = 1

\* C15: every message handed to send_udp_message goes out as follows: one
\* longer than MAX_LINE_LENGTH as its first MAX_LINE_LENGTH characters
\* followed by the marker "... [truncated]" (so a message of
\* MAX_LINE_LENGTH + 1 characters yields MAX_LINE_LENGTH characters plus the
\* marker), one of at most MAX_LINE_LENGTH characters unchanged; and two calls
\* with the same message yield the same payload.
C15_Truncation ==
    /\ Len(payload_log) = Len(sent_log)
    /\ \A i \in 1..Len(sent_log) :
         LET m == sent_log[i]
             p == payload_log[i]
         IN  /\ Len(m) > MAX_LINE_LENGTH =>
                  /\ Len(p) = MAX_LINE_LENGTH + Len(TRUNCATION_MARKER)
                  /\ \A c \in 1..MAX_LINE_LENGTH : p[c] = m[c]
                  /\ \A c \in 1..Len(TRUNCATION_MARKER) :
                       p[MAX_LINE_LENGTH + c] = TRUNCATION_MARKER[c]
             /\ Len(m) <= MAX_LINE_LENGTH => p = m
    /\ \A i, j \in 1..Len(sent_log) :
         sent_log[i] = sent_log[j] => payload_log[i] = payload_log[j]

\* a message of MAX_LINE_LENGTH + 1 characters has been sent, and so has one
\* of exactly MAX_LINE_LENGTH characters
C15_Witness ==
    /\ \E i \in 1..Len(sent_log) : Len(sent_log[i]) = MAX_LINE_LENGTH + 1
    /\ \E i \in 1..Len(sent_log) : Len(sent_log[i]) = MAX_LINE_LENGTH

\* a configuration with a destination port in 1..65535 and a socket buffer
\* size of at least one byte
ConfigValid ==
    /\ UDP_PORT \in 1..65535
    /\ UDP_BUFFER_SIZE >= 1

\* C16 (as claimed): under a configuration with an invalid destination port
\* or an invalid socket buffer size run() returns failure at once: the socket
\* is never created, the file never opened and the main loop never entered.
C16_InvalidConfigRefused ==
    /\ [][(RunStart /\ ~ConfigValid) =>
            (pc' = "done" /\ exit_status' = "config_invalid")]_vars
    /\ [](~ConfigValid =>
            /\ pc \in {"start", "done"}
            /\ ~socket
            /\ log_file = None
            /\ ~running)

\* the four signals of a rotation, on the path and the stored fingerprint
RotationSignal ==
    IF ~PathExists THEN TRUE
    ELSE \/ file_inode # None /\ fs_path # file_inode
         \/ PathSize < file_position
         \/ file_mtime # None /\ PathMtime < file_mtime

\* C17: check_file_rotation reports Rotated exactly when the path no longer
\* exists, or a stored inode exists and the current one differs, or the size
\* is below the stored offset, or a stored modification time exists and the
\* current one is strictly earlier; otherwise it reports Unchanged; and the
\* check changes neither the offset, the stored inode and modification time
\* nor the handle.
C17_RotationIff ==
    [][CheckRotation =>
         /\ pc' = IF RotationSignal THEN "rotated" ELSE "read"
         /\ UNCHANGED tailVars]_vars

\* a rotation reported for the modification time alone: same inode, size not
\* below the offset
C17_Witness ==
    /\ pc = "rotated"
    /\ rot_reason = "mtime"
    /\ fs_path = file_inode
    /\ PathSize >= file_position
    /\ PathMtime < file_mtime

\* the path shows the file that was opened and nothing of the stored
\* fingerprint speaks of a rotation
FingerprintConsistent ==
    /\ PathExists
    /\ fs_path = file_inode
    /\ PathSize >= file_position
    /\ PathMtime >= file_mtime

\* C18 (as claimed): with the fingerprint consistent (same inode, size not
\* below the stored offset, modification time not earlier) and a handle open,
\* check_file_rotation reports Rotated when a read probe at the stored offset
\* on that handle returns zero bytes.
C18_ProbeDetects ==
    [][(CheckRotation /\ log_file # None /\ FingerprintConsistent
          /\ ProbeRead = 0) => pc' = "rotated"]_vars

\* C19 (as claimed): once the open file has been truncated below the stored
\* offset, read_new_lines returns nothing read from that offset until
\* check_file_rotation has reported the rotation and the recovery has reset
\* the offset, whatever is appended in between and whichever of the poll
\* cycles and rotation checks come first.
C19_NoReadFromStaleOffset ==
    [][(ReadNewLines /\ stale # None /\ file_position = stale) =>
         new_lines' = <<>>]_vars

\* C20 (as claimed): a read fault part-way through the scan of read_new_lines
\* makes the call return the lines completed before the fault, in order, and
\* set the stored offset to 0; the fault does not reach the main loop.
C20_ReadFaultHandled ==
    [][(ReadNewLines /\ faults' = faults + 1) =>
         /\ \E k \in 0..Len(RawLines(ScanData)) :
              new_lines' = Kept(RawLines(ScanData), k)
         /\ file_position' = 0
         /\ pc' # "done"
         /\ exit_status' = "none"]_vars

\* C21 (as claimed): within one file's lifetime the stored read offset never
\* decreases, whatever read_new_lines and check_file_rotation calls are made:
\* the only step that sets it back (to 0) is the rotation recovery.
C21_OffsetMonotone ==
    [][(file_position' < file_position) => HandleFileRotation]_vars

\* a read from the top of the loop would find something: the handle is open
\* and the path is gone or the file is longer than the stored offset
ReadDue ==
    /\ pc = "top"
    /\ running
    /\ log_file # None
    /\ (~PathExists \/ PathSize > file_position)

\* the cycle that is due is run: control leaves the top of the loop for the
\* rotation check, the read or the sends
CycleRuns ==
    /\ ReadDue
    /\ pc' \in {"rotated", "read", "send", "done"}

\* FairSpec, and the loop does not sleep for ever between two cycles while
\* there is something to read
LiveSpec ==
    /\ FairSpec
    /\ WF_pc(CycleRuns)

EndsWithNL(l) == l # <<>> /\ l[Len(l)] = NL

\* what was written to the open file after the position of its open
WrittenSinceOpen ==
    LET d == fs_files[log_file].data
    IN  IF open_eof >= Len(d) THEN <<>> ELSE SubSeq(d, open_eof + 1, Len(d))

\* the complete, non-empty lines of it, without their terminators
CompleteLines ==
    LET raw == RawLines(WrittenSinceOpen)
    IN  {Rstrip(raw[i]) : i \in {j \in 1..Len(raw) : EndsWithNL(raw[j])}}
           \ {<<>>}

\* number of times a line was handed to send_udp_message
Count(L) == Cardinality({i \in 1..Len(sent_log) : sent_log[i] = L})

\* the service runs, the handle is open on the file at the path, and no read
\* fault has happened
Undisturbed ==
    /\ pc \notin {"start", "done"}
    /\ running
    /\ log_file # None
    /\ log_file = fs_path
    /\ faults = 0

\* C22 (as claimed): under fair scheduling of the poll loop every complete,
\* non-empty line appended to the watched file while the engine is Open is
\* eventually passed to send_udp_message exactly once, unless the service is
\* stopped, the file at the path is replaced or removed, or a read fault
\* happens: the service does not stay for ever in a state where it runs
\* undisturbed and some complete line written since the open has not been
\* passed on exactly once.
C22_EveryLineSentOnce ==
    []<>(Undisturbed => \A L \in CompleteLines : Count(L) = 1)

\* C23 (as claimed): during one rotation recovery open is attempted at most
\* ROTATION_RETRY_ATTEMPTS times and the recovery stops at the first success;
\* the first attempt is made after ROTATION_RETRY_DELAY, the attempt after a
\* failed one after min(1.5 x the delay before, the ceiling of 5.0 s); and no
\* delay waited in a recovery is above the ceiling, whatever the configured
\* initial delay.
C23_BoundedBackoff ==
    /\ [](pc \in {"retry", "retry_open"} => attempt < ROTATION_RETRY_ATTEMPTS)
    /\ [][(RetryOpen /\ PathExists) =>
            (pc' = "read" /\ log_file' = fs_path)]_vars
    /\ [][HandleFileRotation => retry_delay' = ROTATION_RETRY_DELAY]_vars
    /\ [][(RetryAttempt /\ pc' = "retry") =>
            /\ attempt' = attempt + 1
            /\ retry_delay' =
                 Min((3 * retry_delay) \div 2, RETRY_DELAY_CEILING)]_vars
    /\ [][RetryAttempt => retry_delay <= RETRY_DELAY_CEILING]_vars

\* C24: when the size of the file at the path is less than or equal to the
\* stored offset, read_new_lines returns an empty list and changes neither
\* the offset, the stored inode and modification time, the handle nor any
\* statistic; the cycle ends without a send.
C24_FastPathFrame ==
    [][(ReadNewLines /\ PathExists /\ PathSize <= file_position) =>
         /\ new_lines' = <<>>
         /\ pc' = "top"
         /\ UNCHANGED <<tailVars, stats, sent_log>>]_vars

\* a reopened file has been polled and nothing was new: control is back at
\* the top of the loop after the read that follows a recovery, and the offset
\* is still the one of the open
C24_Witness ==
    /\ pc = "top"
    /\ stats.rotation_count > 0
    /\ log_file # None
    /\ faults = 0
    /\ PathExists
    /\ PathSize <= file_position
    /\ file_position = open_eof
    /\ file_position > 0

\* C25 (as claimed): after any successful open_log_file, in every
\* interleaving with a rotator that removes, renames or recreates the file,
\* the fingerprint and the handle describe the same file: while a handle is
\* open the stored inode is the inode of the file the handle refers to (the
\* stored modification time is read by the same stat() as the stored inode,
\* so it is that file's exactly when the inode is).
C25_FingerprintOfHandle == log_file # None => file_inode = log_file

NonBlank(raw) == {i \in 1..Len(raw) : raw[i] # <<NL>>}

\* ReadNewLines scans the open handle and no read fault happens
ScansWithoutFault ==
    /\ ReadNewLines
    /\ log_file # None
    /\ PathExists
    /\ PathSize > file_position
    /\ faults' = faults

====
